---- MODULE Spec2Model ----
(***************************************************************************)
(* Model of the memegrid sliding-tile puzzle engine (src/shared/puzzle.ts): *)
(* the seeded LCG, the Fisher-Yates shuffle, the solvability predicate,     *)
(* createShuffledPuzzle, move validation, makeMove and isSolved; and of the *)
(* server's handlers over the key-value store: submit-score, leaderboard,   *)
(* daily-state and the daily fetch.                                         *)
(*                                                                          *)
(* JavaScript numbers are doubles.  Every value the engine computes from a  *)
(* seed in 0..2^32-1 is an integer below 2^53, so the arithmetic is exact   *)
(* integer arithmetic.  TLC's integers are 32 bits wide, so a generator     *)
(* state s is kept as the pair of its 16-bit halves, s = hi * 2^16 + lo.    *)
(***************************************************************************)
EXTENDS Integers, Sequences, FiniteSets, TLC

VARIABLES puzzle, rngState, call, first, nmoves, loop, game,
          day, store, req, resp, view, nreq, served, submitted, fetch

\* the game client and the puzzle engine
engine == <<puzzle, rngState, call, first, nmoves, loop, game>>

\* the server: the date, the key-value store, the requests and the responses
server == <<day, store, req, resp, view, nreq, served, submitted, fetch>>

vars == <<puzzle, rngState, call, first, nmoves, loop, game,
          day, store, req, resp, view, nreq, served, submitted, fetch>>

(***************************************************************************)
(* Bounds of the model.                                                     *)
(***************************************************************************)
\* makeMove calls explored after each createShuffledPuzzle
MaxMoves == 3
\* tile indices tried below 0 and above size*size-1
MaxOut == 2

\* PuzzleState.size: 3, 4 or 5
Sizes == {3, 4, 5}

\* Shuffle seeds.  fetchDailyPuzzle stores hashString(date), a value of
\* Math.abs on a 32-bit integer: hashString("2044-06-03"),
\* hashString("2026-11-04"), hashString("3063-06-14"), and 0.
Seeds == {1422539301, 1162589254, 979064215, 0}

(***************************************************************************)
(* JavaScript values.                                                       *)
(***************************************************************************)
\* the value of an array read outside 0..length-1
undefined == -1

\* the invalid-move signal of makeMove, and "no puzzle yet"
null == [isNull |-> TRUE]

\* array[i]
At(array, i) == IF i \in DOMAIN array THEN array[i] ELSE undefined

\* array.indexOf(value): the first index holding value, or -1
IndexOf(array, value) ==
  IF \E i \in DOMAIN array : array[i] = value
  THEN CHOOSE i \in DOMAIN array :
         /\ array[i] = value
         /\ \A k \in DOMAIN array : array[k] = value => i <= k
  ELSE -1

\* a % b of JavaScript for b > 0: the result has the sign of a
JsRem(a, b) == IF a >= 0 THEN a % b ELSE 0 - ((0 - a) % b)

\* Math.floor(a / b) for b > 0
FloorDiv(a, b) == IF a >= 0 THEN a \div b ELSE 0 - (((0 - a) + b - 1) \div b)

(***************************************************************************)
(* createSeededRandom: the linear congruential generator.                   *)
(***************************************************************************)
Half == 2^16
Multiplier == 1664525
Increment == 1013904223

\* Mutant: one generator shared by all calls instead of one per call.
createSeededRandomShared(seed) ==
  IF rngState = null THEN [hi |-> seed \div Half, lo |-> seed % Half]
  ELSE rngState

\* createSeededRandom(seed): let currentSeed = seed
createSeededRandom(seed) == [hi |-> seed \div Half, lo |-> seed % Half]

\* next(): currentSeed = (currentSeed * 1664525 + 1013904223) % 2 ** 32,
\* computed on 16-bit halves; the value returned is currentSeed / 2 ** 32.
\* A state below 0 has hi below 0.  The % of JavaScript gives the sign of the
\* dividend: when currentSeed * 1664525 + 1013904223 is below 0, that is when
\* -currentSeed exceeds 1013904223 / 1664525, the new state is the residue
\* minus 2^32 (or 0).
RngNext(rng) ==
  LET low  == rng.lo * (Multiplier % Half) + (Increment % Half)
      high == rng.hi * (Multiplier % Half) + rng.lo * (Multiplier \div Half)
              + (Increment \div Half) + (low \div Half)
      residue == [hi |-> high % Half, lo |-> low % Half]
      below0 == \/ rng.hi < -1
                \/ rng.hi = -1 /\ Half - rng.lo > Increment \div Multiplier
  IN IF below0 /\ residue # [hi |-> 0, lo |-> 0]
     THEN [hi |-> residue.hi - Half, lo |-> residue.lo]
     ELSE residue

\* Mutant: multiplier and increment sixteen times as large.
exactProductTimes16(rng) ==
  LET low  == rng.lo * (Multiplier % Half) + (Increment % Half)
      high == rng.hi * (Multiplier % Half) + rng.lo * (Multiplier \div Half)
              + (Increment \div Half) + (low \div Half)
      top  == rng.hi * (Multiplier \div Half) + (high \div Half)
  IN [top |-> top * 16 + ((high % Half) \div (Half \div 16)),
      hi  |-> ((high % Half) % (Half \div 16)) * 16
              + ((low % Half) \div (Half \div 16)),
      lo  |-> ((low % Half) % (Half \div 16)) * 16]

\* currentSeed * 1664525 + 1013904223 before the reduction, as the integer
\* top * 2^32 + hi * 2^16 + lo, for a state that is not negative
exactProduct(rng) ==
  LET low  == rng.lo * (Multiplier % Half) + (Increment % Half)
      high == rng.hi * (Multiplier % Half) + rng.lo * (Multiplier \div Half)
              + (Increment \div Half) + (low \div Half)
      top  == rng.hi * (Multiplier \div Half) + (high \div Half)
  IN [top |-> top, hi |-> high % Half, lo |-> low % Half]

\* Math.floor(rng.next() * n) for the generator state after next():
\* floor(currentSeed * n / 2^32)
FloorScaled(rng, n) == (rng.hi * n + ((rng.lo * n) \div Half)) \div Half

(***************************************************************************)
(* seededShuffle: Fisher-Yates from the last index down to 1.               *)
(***************************************************************************)
RECURSIVE ShuffleFrom(_, _, _)
ShuffleFrom(shuffled, rng, i) ==
  IF i <= 0 THEN [array |-> shuffled, rng |-> rng]
  ELSE LET r == RngNext(rng)
           j == FloorScaled(r, i + 1)
       IN ShuffleFrom([shuffled EXCEPT ![i] = shuffled[j], ![j] = shuffled[i]],
                      r, i - 1)

\* length of a 0-based array
Len0(array) == Cardinality(DOMAIN array)

seededShuffle(array, rng) == ShuffleFrom(array, rng, Len0(array) - 1)

(***************************************************************************)
(* Solvability predicate.                                                   *)
(***************************************************************************)
countInversions(grid, size) ==
  Cardinality({p \in (DOMAIN grid) \X (DOMAIN grid) :
                 /\ p[1] < p[2]
                 /\ grid[p[1]] # undefined /\ grid[p[1]] # size * size - 1
                 /\ grid[p[2]] # undefined /\ grid[p[2]] # size * size - 1
                 /\ grid[p[1]] > grid[p[2]]})

getEmptyRow(grid, size) == FloorDiv(IndexOf(grid, size * size - 1), size)

\* a predicate that looks at the inversions only, whatever the size
isSolvableInversions(grid, size) == countInversions(grid, size) % 2 = 0

isSolvable(grid, size) ==
  LET inversions == countInversions(grid, size)
      emptyRow   == getEmptyRow(grid, size)
  IN IF size % 2 = 1
     THEN inversions % 2 = 0
     ELSE (inversions + emptyRow) % 2 = 0

(***************************************************************************)
(* createShuffledPuzzle.                                                    *)
(***************************************************************************)
\* Array.from({ length: totalTiles }, (_, i) => i)
solvedGrid(size) == [i \in 0 .. size * size - 1 |-> i]

\* the retry limit of the do-while loop
MaxAttempts == 100

\* the fallback: the solved grid with its last two cells swapped
fallbackGrid(size) ==
  LET totalTiles == size * size
      grid == solvedGrid(size)
  IN [grid EXCEPT ![totalTiles - 1] = grid[totalTiles - 2],
                  ![totalTiles - 2] = grid[totalTiles - 1]]

\* an iteration that falls back at the last allowed attempt, without testing
\* its shuffle
shuffleAttemptEarly(size, rng, attempts) ==
  LET sh == seededShuffle(solvedGrid(size), rng)
      n  == attempts + 1
  IN IF n >= MaxAttempts
     THEN [grid |-> fallbackGrid(size), rng |-> sh.rng, attempts |-> n,
           done |-> TRUE, fallback |-> TRUE]
     ELSE [grid |-> sh.array, rng |-> sh.rng, attempts |-> n,
           done |-> isSolvable(sh.array, size), fallback |-> FALSE]

\* One iteration of the do-while loop, from the generator state and the
\* attempts made so far: the grid, the generator, the counter, and whether
\* the loop is left (by the break or by the loop condition).
shuffleAttempt(size, rng, attempts) ==
  LET sh == seededShuffle(solvedGrid(size), rng)
      n  == attempts + 1
  IN IF n > MaxAttempts
     THEN [grid |-> fallbackGrid(size), rng |-> sh.rng, attempts |-> n,
           done |-> TRUE, fallback |-> TRUE]
     ELSE [grid |-> sh.array, rng |-> sh.rng, attempts |-> n,
           done |-> isSolvable(sh.array, size), fallback |-> FALSE]

RECURSIVE shuffleLoop(_, _, _)
shuffleLoop(size, rng, attempts) ==
  LET it == shuffleAttempt(size, rng, attempts)
  IN IF it.done THEN it ELSE shuffleLoop(size, it.rng, it.attempts)

\* the PuzzleState returned after the loop
puzzleOf(grid, size) ==
  [grid |-> grid, emptyIndex |-> IndexOf(grid, size * size - 1), size |-> size]

\* the run of createShuffledPuzzle(size, seed): the loop's last iteration
createRun(size, seed) == shuffleLoop(size, createSeededRandom(seed), 0)

createShuffledPuzzle(size, seed) == puzzleOf(createRun(size, seed).grid, size)

(***************************************************************************)
(* Move validation, makeMove, isSolved.                                     *)
(***************************************************************************)
\* Mutant: the left and right neighbours taken without the column tests.
getAdjacentIndicesWrap(index, size) ==
  LET row == FloorDiv(index, size)
  IN (IF row > 0 THEN <<index - size>> ELSE <<>>)
     \o (IF row < size - 1 THEN <<index + size>> ELSE <<>>)
     \o <<index - 1, index + 1>>

\* the neighbours of index in the order up, down, left, right
getAdjacentIndices(index, size) ==
  LET row == FloorDiv(index, size)
      col == JsRem(index, size)
  IN (IF row > 0 THEN <<index - size>> ELSE <<>>)
     \o (IF row < size - 1 THEN <<index + size>> ELSE <<>>)
     \o (IF col > 0 THEN <<index - 1>> ELSE <<>>)
     \o (IF col < size - 1 THEN <<index + 1>> ELSE <<>>)

\* adjacent.includes(value)
Includes(seq, value) == \E k \in DOMAIN seq : seq[k] = value

isValidMove(p, tileIndex) ==
  Includes(getAdjacentIndices(tileIndex, p.size), p.emptyIndex)

\* the grid after newGrid[tileIndex] = a; newGrid[emptyIndex] = b
Swapped(p, tileIndex, a, b) ==
  [i \in DOMAIN p.grid |->
     IF i = p.emptyIndex THEN b ELSE IF i = tileIndex THEN a ELSE p.grid[i]]

\* Mutant: emptyIndex of the new state is left at the old empty cell.
makeMoveStaleEmpty(p, tileIndex) ==
  IF ~isValidMove(p, tileIndex) \/ At(p.grid, tileIndex) = undefined
  THEN [ret |-> null, arg |-> p]
  ELSE [ret |-> [grid |-> Swapped(p, tileIndex, p.grid[p.emptyIndex],
                                  p.grid[tileIndex]),
                 emptyIndex |-> p.emptyIndex, size |-> p.size],
        arg |-> p]

\* Mutant: no isValidMove test, any cell of the grid is swapped.
makeMoveUnchecked(p, tileIndex) ==
  IF At(p.grid, tileIndex) = undefined
  THEN [ret |-> null, arg |-> p]
  ELSE [ret |-> [grid |-> Swapped(p, tileIndex, p.grid[p.emptyIndex],
                                  p.grid[tileIndex]),
                 emptyIndex |-> tileIndex, size |-> p.size],
        arg |-> p]

\* Mutant: no test of tileValue and emptyValue for undefined.
makeMoveNoUndefinedTest(p, tileIndex) ==
  IF ~isValidMove(p, tileIndex) THEN [ret |-> null, arg |-> p]
  ELSE [ret |-> [grid |-> Swapped(p, tileIndex, At(p.grid, p.emptyIndex),
                                  At(p.grid, tileIndex)),
                 emptyIndex |-> tileIndex, size |-> p.size],
        arg |-> p]

\* Mutant: the swap is made in puzzle.grid itself, not in a copy.
makeMoveInPlace(p, tileIndex) ==
  IF ~isValidMove(p, tileIndex) \/ At(p.grid, tileIndex) = undefined
  THEN [ret |-> null, arg |-> p]
  ELSE LET grid == Swapped(p, tileIndex, p.grid[p.emptyIndex],
                           p.grid[tileIndex])
       IN [ret |-> [grid |-> grid, emptyIndex |-> tileIndex, size |-> p.size],
           arg |-> [p EXCEPT !.grid = grid]]

\* Mutant: only newGrid[tileIndex] is written.
makeMoveOneWrite(p, tileIndex) ==
  IF ~isValidMove(p, tileIndex) \/ At(p.grid, tileIndex) = undefined
  THEN [ret |-> null, arg |-> p]
  ELSE [ret |-> [grid |-> [p.grid EXCEPT ![tileIndex] = p.grid[p.emptyIndex]],
                 emptyIndex |-> tileIndex, size |-> p.size],
        arg |-> p]

\* makeMove(p, tileIndex): ret is the value returned (null or the new state),
\* arg is the object passed in as it is after the call.  The code copies
\* p.grid into newGrid and writes only to the copy.
makeMove(p, tileIndex) ==
  IF ~isValidMove(p, tileIndex) THEN [ret |-> null, arg |-> p]
  ELSE LET tileValue  == At(p.grid, tileIndex)
           emptyValue == At(p.grid, p.emptyIndex)
       IN IF tileValue = undefined \/ emptyValue = undefined
          THEN [ret |-> null, arg |-> p]
          ELSE [ret |-> [grid |-> [p.grid EXCEPT ![tileIndex] = emptyValue,
                                                 ![p.emptyIndex] = tileValue],
                         emptyIndex |-> tileIndex,
                         size |-> p.size],
                arg |-> p]

\* Mutant: only the empty tile is tested for being in its place.
isSolvedEmptyHome(p) ==
  At(p.grid, p.size * p.size - 1) = p.size * p.size - 1

\* puzzle.grid.every((value, index) => value === index)
isSolved(p) == \A index \in DOMAIN p.grid : p.grid[index] = index

(***************************************************************************)
(* The server's world: the calendar, the redis store and the sessions.      *)
(*   day    index in Dates of the current UTC date                          *)
(*   store  redis: a map from the keys that exist to their string values    *)
(*   req    per session, the submit-score request in flight and its locals  *)
(*   resp   per session, the last submit-score response, with what the      *)
(*          handler read and wrote to produce it                            *)
(*   view   the last response of a GET handler or of the daily fetch        *)
(*   nreq   submit-score requests received so far                           *)
(*   served     what the successful daily-state responses carried, with the *)
(*              date they were served on                                    *)
(*   submitted  the scores that submit-score requests brought to a table    *)
(***************************************************************************)

\* new Date().toISOString().split('T')[0] on two consecutive days
Dates == <<"2026-11-04", "2026-11-05">>

\* str.charCodeAt(i) for i = 0 .. str.length - 1
charCodes(str) ==
  CASE str = "2026-11-04" -> <<50, 48, 50, 54, 45, 49, 49, 45, 48, 52>>
    [] str = "2026-11-05" -> <<50, 48, 50, 54, 45, 49, 49, 45, 48, 53>>
    [] str = "2044-06-03" -> <<50, 48, 52, 52, 45, 48, 54, 45, 48, 51>>
    [] str = "2044-06-04" -> <<50, 48, 52, 52, 45, 48, 54, 45, 48, 52>>
    [] str = "3063-06-14" -> <<51, 48, 54, 51, 45, 48, 54, 45, 49, 52>>
    [] str = "3063-06-15" -> <<51, 48, 54, 51, 45, 48, 54, 45, 49, 53>>

\* one round of hashString on the 32-bit pattern of hash, kept as two 16-bit
\* halves: hash = (hash << 5) - hash + char; hash = hash & hash
hashRound(hash, char) ==
  LET lo == hash.lo * 31 + char
      hi == hash.hi * 31 + lo \div Half
  IN  [hi |-> hi % Half, lo |-> lo % Half]

RECURSIVE hashFrom(_, _, _)
hashFrom(hash, chars, i) ==
  IF i > Len(chars) THEN hash
  ELSE hashFrom(hashRound(hash, chars[i]), chars, i + 1)

\* Math.abs of the signed 32-bit integer whose pattern is hash
absInt32(hash) ==
  IF hash.hi < Half \div 2 THEN hash.hi * Half + hash.lo
  ELSE (Half - 1 - hash.hi) * Half + (Half - hash.lo)

hashString(str) == absInt32(hashFrom([hi |-> 0, lo |-> 0], charCodes(str), 1))

\* the sessions that send requests: two logged-in players, and one for which
\* reddit.getCurrentUsername() yields undefined
Players == {101, 102}

Sessions == Players \cup {undefined}

getCurrentUsername(session) == session

\* JavaScript truthiness of a number or undefined: !x
Falsy(x) == x = undefined \/ x = 0

\* JSON.stringify and JSON.parse of a value the handlers store
JSONstringify(value) == [json |-> value]

JSONparse(str) == str.json

\* what redis.get gives for a key that does not exist: undefined, as a value
\* that compares with the stored strings
noValue == [missing |-> TRUE]

\* redis.get(key): the string under key, or undefined
redisGet(db, key) == IF key \in DOMAIN db THEN db[key] ELSE noValue

\* redis.set(key, value)
redisSet(db, key, value) ==
  [k \in DOMAIN db \cup {key} |-> IF k = key THEN value ELSE db[k]]

\* `leaderboard:${date}:${difficulty}` and `daily_state:${name}`
leaderboardKey(date, difficulty) == <<"leaderboard", date, difficulty>>

dailyStateKey(name) == <<"daily_state", name>>

EmptyStore == [k \in {} |-> noValue]

NoRequest ==
  [pc |-> "idle", body |-> null, username |-> undefined, key |-> <<>>,
   seen |-> <<>>, outcome |-> "none", leaderboard |-> <<>>]

NoResponse ==
  [code |-> 0, status |-> "none", rank |-> undefined, message |-> "none",
   body |-> null, username |-> undefined, key |-> <<>>, seen |-> <<>>,
   outcome |-> "none", stored |-> <<>>, reads |-> 0, writes |-> 0]

NoView ==
  [kind |-> "none", code |-> 0, status |-> "none", body |-> null,
   query |-> null, date |-> "", existed |-> FALSE, changed |-> FALSE,
   reads |-> 0]

\* who calls fetchDailyPuzzle: the job of scheduler.post('/daily-fetch') and
\* the action of menu.post('/fetch-daily')
Callers == {"scheduler", "menu"}

\* an invocation of fetchDailyPuzzle that has not started: where it stands,
\* its today, the dailyState it built, what it returned, the status code of
\* its caller, the redis.set calls it completed and the store it started on
NoFetch ==
  [pc |-> "idle", today |-> "", dailyState |-> null, result |-> null,
   code |-> 0, writes |-> 0, before |-> null]

\* the client before initGame: gameState, timerInterval (0 for null: the
\* ids of window.setInterval are positive), and the bodies posted to
\* /api/submit-score
NoGame ==
  [dailyState |-> null, difficulty |-> 3, moves |-> 0, startTime |-> 0,
   elapsedTime |-> 0, isSolved |-> FALSE, timerInterval |-> 0,
   now |-> 1, intervals |-> 0, active |-> {}, valid |-> 0, resets |-> 0,
   posts |-> <<>>, delivered |-> 0]

\* no request has been received and nothing is stored
ServerIdle ==
  /\ day = 1
  /\ store = EmptyStore
  /\ req = [s \in Sessions |-> NoRequest]
  /\ resp = [s \in Sessions |-> NoResponse]
  /\ view = NoView
  /\ nreq = 0
  /\ served = {}
  /\ submitted = {}
  /\ fetch = [via \in Callers |-> NoFetch]

(***************************************************************************)
(* The engine driven by its caller: a puzzle is created from (size, seed),  *)
(* tiles are clicked, and the puzzle is created again on reset.             *)
(*   puzzle    the caller's current PuzzleState (gameState.puzzle)          *)
(*   rngState  currentSeed of the generator of the last create call         *)
(*   call      the last engine call: its arguments, the argument object as  *)
(*             it was before and is after the call, the value returned, and *)
(*             the makeMove calls made since the create call before it      *)
(*   first     the first create call and what it returned                   *)
(*   nmoves    makeMove calls since the last create call                    *)
(*   loop      the do-while loop of createShuffledPuzzle, stepped (LoopSpec)*)
(***************************************************************************)
NoCall ==
  [op |-> "none", size |-> 0, seed |-> 0, tile |-> 0, since |-> 0,
   before |-> null, after |-> null, ret |-> null]

Init ==
  /\ puzzle = null
  /\ rngState = null
  /\ call = NoCall
  /\ first = null
  /\ nmoves = 0
  /\ loop = null
  /\ game = NoGame
  /\ ServerIdle

\* gameState.puzzle = createShuffledPuzzle(size, seed), and what the call
\* leaves behind
Create(size, seed) ==
  LET run == createRun(size, seed)
      p   == puzzleOf(run.grid, size)
  IN /\ puzzle' = p
     /\ rngState' = run.rng
     /\ call' = [op |-> "create", size |-> size, seed |-> seed, tile |-> 0,
                 since |-> nmoves,
                 before |-> null, after |-> null, ret |-> p]
     /\ first' = IF first = null
                 THEN [size |-> size, seed |-> seed, ret |-> p]
                 ELSE first
     /\ nmoves' = 0
     /\ UNCHANGED <<loop, game>>
     /\ UNCHANGED server

\* initGame: the difficulty chosen by the player and the shuffleSeed of the
\* daily state
InitGame(size, seed) ==
  /\ puzzle = null
  /\ Create(size, seed)

\* resetPuzzle: the same difficulty and the same shuffleSeed again
ResetPuzzle ==
  /\ puzzle # null
  /\ Create(first.size, first.seed)

\* the tile indices passed to makeMove: every cell, and MaxOut indices on
\* either side of the grid
TileIndices(p) ==
  IF p = null THEN {} ELSE (0 - MaxOut) .. (p.size * p.size - 1 + MaxOut)

\* handleTileClick: newPuzzle = makeMove(gameState.puzzle, tileIndex);
\* if (!newPuzzle) return; gameState.puzzle = newPuzzle
Move(tileIndex) ==
  /\ puzzle # null
  /\ nmoves < MaxMoves
  /\ LET m == makeMove(puzzle, tileIndex)
     IN /\ puzzle' = IF m.ret = null THEN m.arg ELSE m.ret
        /\ call' = [op |-> "move", size |-> puzzle.size, seed |-> 0,
                    tile |-> tileIndex, since |-> nmoves + 1,
                    before |-> puzzle, after |-> m.arg, ret |-> m.ret]
  /\ nmoves' = nmoves + 1
  /\ UNCHANGED <<rngState, first, loop, game>>
  /\ UNCHANGED server

Next ==
  \/ \E size \in Sizes, seed \in Seeds : InitGame(size, seed)
  \/ ResetPuzzle
  \/ \E tileIndex \in TileIndices(puzzle) : Move(tileIndex)

Spec == Init /\ [][Next]_vars

(***************************************************************************)
(* getNextMoveHint of the client, and the engine's functions on boards of   *)
(* every kind (BoardSpec): the solved board, the fallback board and the     *)
(* first shuffle of each seed, whether it passes isSolvable or not, then    *)
(* tile clicks and hint requests.                                           *)
(***************************************************************************)
\* Math.abs
Abs(x) == IF x < 0 THEN 0 - x ELSE x

\* validMoves: the cells next to the empty one, in the order up, down, left,
\* right
validMoves(p) ==
  LET row == FloorDiv(p.emptyIndex, p.size)
      col == JsRem(p.emptyIndex, p.size)
  IN  (IF row > 0 THEN <<p.emptyIndex - p.size>> ELSE <<>>)
      \o (IF row < p.size - 1 THEN <<p.emptyIndex + p.size>> ELSE <<>>)
      \o (IF col > 0 THEN <<p.emptyIndex - 1>> ELSE <<>>)
      \o (IF col < p.size - 1 THEN <<p.emptyIndex + 1>> ELSE <<>>)

\* score: currentDist - newDist of the tile at tileIndex
hintScore(p, tileIndex) ==
  LET targetIndex == At(p.grid, tileIndex)
      currentRow == FloorDiv(tileIndex, p.size)
      currentCol == JsRem(tileIndex, p.size)
      targetRow == FloorDiv(targetIndex, p.size)
      targetCol == JsRem(targetIndex, p.size)
      currentDist == Abs(currentRow - targetRow) + Abs(currentCol - targetCol)
      newRow == FloorDiv(p.emptyIndex, p.size)
      newCol == JsRem(p.emptyIndex, p.size)
      newDist == Abs(newRow - targetRow) + Abs(newCol - targetCol)
  IN  currentDist - newDist

\* the for loop from the k-th valid move on; bestTile is null or holds a
\* cell index
RECURSIVE hintLoop(_, _, _, _)
hintLoop(p, k, bestTile, bestScore) ==
  IF k > Len(validMoves(p)) THEN bestTile
  ELSE LET tileIndex == validMoves(p)[k]
           score == hintScore(p, tileIndex)
       IN  IF score > bestScore
           THEN hintLoop(p, k + 1, [tile |-> tileIndex], score)
           ELSE hintLoop(p, k + 1, bestTile, bestScore)

\* a hint in which a later tile of equal score replaces the best one
RECURSIVE hintLoopLast(_, _, _, _)
hintLoopLast(p, k, bestTile, bestScore) ==
  IF k > Len(validMoves(p)) THEN bestTile
  ELSE LET tileIndex == validMoves(p)[k]
           score == hintScore(p, tileIndex)
       IN  IF score >= bestScore /\ score >= 0
           THEN hintLoopLast(p, k + 1, [tile |-> tileIndex], score)
           ELSE hintLoopLast(p, k + 1, bestTile, bestScore)

getNextMoveHintLast(p) == hintLoopLast(p, 1, null, -1)

\* a hint that starts from a best score below every score
getNextMoveHintAny(p) == hintLoop(p, 1, null, -3)

\* let bestTile = null; let bestScore = -1; ...; return bestTile
getNextMoveHint(p) == hintLoop(p, 1, null, -1)

\* getNextMoveHint(gameState.puzzle)
Hint ==
  /\ puzzle # null
  /\ call' = [op |-> "hint", size |-> puzzle.size, seed |-> 0, tile |-> 0,
              since |-> nmoves, before |-> puzzle, after |-> puzzle,
              ret |-> getNextMoveHint(puzzle)]
  /\ UNCHANGED <<puzzle, rngState, first, nmoves, loop, game>>
  /\ UNCHANGED server

\* the boards a run starts from
BoardStarts ==
  {puzzleOf(solvedGrid(size), size) : size \in Sizes}
  \cup {puzzleOf(fallbackGrid(size), size) : size \in Sizes}
  \cup {puzzleOf(seededShuffle(solvedGrid(size),
                               createSeededRandom(seed)).array, size) :
          size \in Sizes, seed \in Seeds}

BoardInit ==
  /\ puzzle \in BoardStarts
  /\ rngState = null
  /\ call = NoCall
  /\ first = null
  /\ nmoves = 0
  /\ loop = null
  /\ game = NoGame
  /\ ServerIdle

BoardNext ==
  \/ \E tileIndex \in TileIndices(puzzle) : Move(tileIndex)
  \/ Hint

BoardSpec == BoardInit /\ [][BoardNext]_vars

(***************************************************************************)
(* The do-while loop of createShuffledPuzzle, one iteration per step.       *)
(* Which generator state the loop head has after k rejected shuffles        *)
(* depends on the seed, and the seeds are not enumerated: the loop head is  *)
(* taken with each generator state of LoopStates and every k in             *)
(* 0 .. MaxAttempts.                                                        *)
(***************************************************************************)
LoopStates == {createSeededRandom(seed) : seed \in Seeds}

LoopInit ==
  /\ puzzle = null
  /\ rngState = null
  /\ call = NoCall
  /\ first = null
  /\ nmoves = 0
  /\ game = NoGame
  /\ ServerIdle
  /\ \E size \in Sizes, rng \in LoopStates, attempts \in 0 .. MaxAttempts :
       loop = [size |-> size, grid |-> null, rng |-> rng,
               attempts |-> attempts, done |-> FALSE, fallback |-> FALSE]

\* one iteration: shuffle, count, fall back or test the loop condition
LoopStep ==
  /\ ~loop.done
  /\ loop' = [size |-> loop.size]
             @@ shuffleAttempt(loop.size, loop.rng, loop.attempts)
  /\ UNCHANGED <<puzzle, rngState, call, first, nmoves, game>>
  /\ UNCHANGED server

LoopNext == LoopStep

LoopSpec == LoopInit /\ [][LoopNext]_vars

(***************************************************************************)
(* The generator on its own (RngSpec): createSeededRandom(seed) for the     *)
(* seeds of the program, their negatives and the integers around 0, then    *)
(* calls of next().  call.before is the state before the last call, and     *)
(* call.ret the state it left, the numerator of the value returned.         *)
(***************************************************************************)
MaxSeed == 700

MaxDraws == 3

\* the seeds from 2^31 to 2^32 - 1, given as their halves: the largest ones
\* and those with one half at its largest
TopSeeds ==
  {[hi |-> Half - 1, lo |-> Half - 1 - k] : k \in 0 .. MaxSeed}
    \cup {[hi |-> Half - 1 - k, lo |-> Half - 1] : k \in 0 .. MaxSeed}

RngSeeds == Seeds \cup {0 - seed : seed \in Seeds} \cup (0 - MaxSeed .. MaxSeed)

RngInit ==
  /\ puzzle = null
  /\ first = null
  /\ nmoves = 0
  /\ loop = null
  /\ game = NoGame
  /\ ServerIdle
  /\ \/ \E seed \in RngSeeds :
          /\ rngState = createSeededRandom(seed)
          /\ call = [NoCall EXCEPT !.op = "createSeededRandom", !.seed = seed]
     \/ \E rng \in TopSeeds :
          /\ rngState = rng
          /\ call = [NoCall EXCEPT !.op = "createSeededRandom", !.seed = rng]

\* rng.next()
RngDraw ==
  /\ call.since < MaxDraws
  /\ rngState' = RngNext(rngState)
  /\ call' = [call EXCEPT !.op = "next", !.since = call.since + 1,
                          !.before = rngState, !.ret = RngNext(rngState)]
  /\ UNCHANGED <<puzzle, first, nmoves, loop, game>>
  /\ UNCHANGED server

RngSpecNext == RngDraw

RngSpec == RngInit /\ [][RngSpecNext]_vars

(***************************************************************************)
(* POST /api/submit-score.  The handler validates the body, asks for the    *)
(* user name, reads the table of (today, difficulty), inserts or replaces   *)
(* the player's entry, sorts, keeps the first Capacity entries, writes the  *)
(* table back and answers with the rank.  It yields at redis.get and at     *)
(* redis.set: SubmitRead is the handler up to the point where the table to  *)
(* write is computed, SubmitSet is the write and the response.              *)
(***************************************************************************)
MaxRequests == 2

\* leaderboard.slice(0, 100)
Capacity == 100

\* request bodies: complete ones, and ones that lack a field or carry time 0
Bodies ==
  {[time |-> 1, moves |-> 1, difficulty |-> 3],
   [time |-> 1, moves |-> 2, difficulty |-> 3],
   [time |-> 2, moves |-> 1, difficulty |-> 3],
   [time |-> 2, moves |-> 2, difficulty |-> 3],
   [time |-> 1, moves |-> 1, difficulty |-> 7],
   [time |-> undefined, moves |-> 1, difficulty |-> 3],
   [time |-> 1, moves |-> undefined, difficulty |-> 3],
   [time |-> 1, moves |-> 1, difficulty |-> undefined],
   [time |-> 0, moves |-> 1, difficulty |-> 3]}

\* a test that forgets the difficulty
missingFieldsTimeMoves(body) == Falsy(body.time) \/ Falsy(body.moves)

\* if (!time || !moves || !difficulty) return 400
missingFields(body) ==
  Falsy(body.time) \/ Falsy(body.moves) \/ Falsy(body.difficulty)

\* the LeaderboardEntry built from the body
entryOf(username, body, date) ==
  [username |-> username, time |-> body.time, moves |-> body.moves,
   difficulty |-> body.difficulty, date |-> date]

\* leaderboardStr ? JSON.parse(leaderboardStr) : []
parseLeaderboard(leaderboardStr) ==
  IF leaderboardStr = noValue THEN <<>> ELSE JSONparse(leaderboardStr)

\* findIndex that finds nobody
findIndexNone(leaderboard, username) == -1

\* leaderboard.findIndex(e => e.username === username): 0-based, -1 if none
findIndex(leaderboard, username) ==
  IF \E k \in DOMAIN leaderboard : leaderboard[k].username = username
  THEN (CHOOSE k \in DOMAIN leaderboard :
          /\ leaderboard[k].username = username
          /\ \A j \in 1 .. k - 1 : leaderboard[j].username # username) - 1
  ELSE -1

\* a.time < b.time || (a.time === b.time && a.moves < b.moves)
isBetter(a, b) == a.time < b.time \/ (a.time = b.time /\ a.moves < b.moves)

\* the rank answered when the stored score is kept: the entries strictly
\* better than the existing one, plus one
rankOfExisting(leaderboard, existing) ==
  Cardinality({k \in DOMAIN leaderboard : isBetter(leaderboard[k], existing)})
  + 1

\* upsert that pushes the better score of a player who has an entry
upsertPush(leaderboard, entry) ==
  LET existingIndex == findIndex(leaderboard, entry.username)
  IN  IF existingIndex >= 0
         /\ ~isBetter(entry, leaderboard[existingIndex + 1])
      THEN [outcome |-> "retained",
            rank |-> rankOfExisting(leaderboard,
                                    leaderboard[existingIndex + 1]),
            leaderboard |-> leaderboard]
      ELSE [outcome |-> IF existingIndex >= 0 THEN "replaced" ELSE "appended",
            rank |-> undefined, leaderboard |-> Append(leaderboard, entry)]

\* upsert that replaces the entry of the player whatever the scores
upsertAlways(leaderboard, entry) ==
  LET existingIndex == findIndex(leaderboard, entry.username)
  IN  IF existingIndex >= 0
      THEN [outcome |-> "replaced", rank |-> undefined,
            leaderboard |->
              [leaderboard EXCEPT ![existingIndex + 1] = entry]]
      ELSE [outcome |-> "appended", rank |-> undefined,
            leaderboard |-> Append(leaderboard, entry)]

\* upsert that also replaces on a tie
upsertOnTie(leaderboard, entry) ==
  LET existingIndex == findIndex(leaderboard, entry.username)
  IN  IF existingIndex >= 0
      THEN LET existing == leaderboard[existingIndex + 1]
           IN  IF ~isBetter(existing, entry)
               THEN [outcome |-> "replaced", rank |-> undefined,
                     leaderboard |->
                       [leaderboard EXCEPT ![existingIndex + 1] = entry]]
               ELSE [outcome |-> "retained",
                     rank |-> rankOfExisting(leaderboard, existing),
                     leaderboard |-> leaderboard]
      ELSE [outcome |-> "appended", rank |-> undefined,
            leaderboard |-> Append(leaderboard, entry)]

\* the branch on existingIndex: replace a worse entry, keep a better or equal
\* one, append for a new player
upsert(leaderboard, entry) ==
  LET existingIndex == findIndex(leaderboard, entry.username)
  IN  IF existingIndex >= 0
      THEN LET existing == leaderboard[existingIndex + 1]
           IN  IF isBetter(entry, existing)
               THEN [outcome |-> "replaced", rank |-> undefined,
                     leaderboard |->
                       [leaderboard EXCEPT ![existingIndex + 1] = entry]]
               ELSE [outcome |-> "retained",
                     rank |-> rankOfExisting(leaderboard, existing),
                     leaderboard |-> leaderboard]
      ELSE [outcome |-> "appended", rank |-> undefined,
            leaderboard |-> Append(leaderboard, entry)]

\* the comparator of leaderboard.sort
compareEntries(a, b) ==
  IF a.time # b.time THEN a.time - b.time ELSE a.moves - b.moves

\* Array.prototype.sort is stable: the entries that compare lowest come
\* first, in the order they had, then the rest in the same way
RECURSIVE sortFrom(_, _)
sortFrom(leaderboard, rest) ==
  IF rest = {} THEN <<>>
  ELSE LET low == CHOOSE a \in rest :
                    \A b \in rest : compareEntries(leaderboard[a],
                                                   leaderboard[b]) <= 0
           same(e) == compareEntries(e, leaderboard[low]) = 0
       IN  SelectSeq(leaderboard, same)
           \o sortFrom(leaderboard,
                       {b \in rest : ~same(leaderboard[b])})

\* one index per distinct (time, moves), to start sortFrom
firstOfEach(leaderboard) ==
  {a \in DOMAIN leaderboard :
     \A b \in 1 .. a - 1 : compareEntries(leaderboard[a], leaderboard[b]) # 0}

\* the table left in the order of arrival
sortLeaderboardNone(leaderboard) == leaderboard

sortLeaderboard(leaderboard) == sortFrom(leaderboard, firstOfEach(leaderboard))

\* slice(-100): the last entries are kept
keepTopLast(leaderboard) ==
  IF Len(leaderboard) <= Capacity THEN leaderboard
  ELSE SubSeq(leaderboard, Len(leaderboard) - Capacity + 1, Len(leaderboard))

\* leaderboard.slice(0, 100)
keepTop(leaderboard) ==
  IF Len(leaderboard) <= Capacity THEN leaderboard
  ELSE SubSeq(leaderboard, 1, Capacity)

\* leaderboard.findIndex(e => e.username === username) + 1
rankOf(leaderboard, username) == findIndex(leaderboard, username) + 1

errorResponse(code, message, body, username) ==
  [NoResponse EXCEPT !.code = code, !.status = "error", !.message = message,
                     !.body = body, !.username = username]

\* the handler from the request to its redis.set, or to its response when it
\* answers without writing; db is the store it leaves
submitRead(db, session, body, date) ==
  IF missingFields(body)
  THEN [done |-> TRUE, db |-> db, req |-> NoRequest,
        resp |-> errorResponse(400,
                               "Missing required fields: time, moves, difficulty",
                               body, undefined)]
  ELSE
    LET username == getCurrentUsername(session)
    IN  IF username = undefined
        THEN [done |-> TRUE, db |-> db, req |-> NoRequest,
              resp |-> errorResponse(401, "Unable to get username", body,
                                     username)]
        ELSE
          LET key == leaderboardKey(date, body.difficulty)
              leaderboard == parseLeaderboard(redisGet(db, key))
              u == upsert(leaderboard, entryOf(username, body, date))
          IN  IF u.outcome = "retained"
              THEN [done |-> TRUE, db |-> db, req |-> NoRequest,
                    resp |->
                      [code |-> 200, status |-> "success", rank |-> u.rank,
                       message |-> "Your existing score is better",
                       body |-> body, username |-> username, key |-> key,
                       seen |-> leaderboard, outcome |-> u.outcome,
                       stored |-> parseLeaderboard(redisGet(db, key)),
                       reads |-> 1, writes |-> 0]]
              ELSE [done |-> FALSE, db |-> db, resp |-> NoResponse,
                    req |->
                      [pc |-> "set", body |-> body, username |-> username,
                       key |-> key, seen |-> leaderboard,
                       outcome |-> u.outcome,
                       leaderboard |->
                         keepTop(sortLeaderboard(u.leaderboard))]]

\* the request arrives and runs to its response or to its redis.set
SubmitRead(session, body, overlap) ==
  /\ nreq < MaxRequests
  /\ req[session].pc = "idle"
  /\ overlap \/ \A s \in Sessions : req[s].pc = "idle"
  /\ LET r == submitRead(store, session, body, Dates[day])
     IN  /\ req' = [req EXCEPT ![session] = r.req]
         /\ resp' = IF r.done THEN [resp EXCEPT ![session] = r.resp] ELSE resp
         /\ store' = r.db
         /\ submitted' =
              IF r.done /\ r.resp.status = "error" THEN submitted
              ELSE LET a == IF r.done THEN r.resp ELSE r.req
                   IN  submitted \cup
                         {[username |-> a.username, key |-> a.key,
                           time |-> body.time, moves |-> body.moves]}
  /\ nreq' = nreq + 1
  /\ UNCHANGED <<day, view, served, fetch>>
  /\ UNCHANGED engine

\* a write that reads the table again and inserts into what it finds, in one
\* step
SubmitSetFresh(session) ==
  /\ req[session].pc = "set"
  /\ LET r == req[session]
         u == upsert(parseLeaderboard(redisGet(store, r.key)),
                     entryOf(r.username, r.body, r.key[2]))
         leaderboard == keepTop(sortLeaderboard(u.leaderboard))
         db == redisSet(store, r.key, JSONstringify(leaderboard))
     IN  /\ store' = db
         /\ resp' = [resp EXCEPT ![session] =
              [code |-> 200, status |-> "success",
               rank |-> rankOf(leaderboard, r.username),
               message |-> "Score submitted successfully",
               body |-> r.body, username |-> r.username, key |-> r.key,
               seen |-> r.seen, outcome |-> r.outcome,
               stored |-> parseLeaderboard(redisGet(db, r.key)),
               reads |-> 1, writes |-> 1]]
  /\ req' = [req EXCEPT ![session] = NoRequest]
  /\ UNCHANGED <<day, view, nreq, served, submitted, fetch>>
  /\ UNCHANGED engine

\* await redis.set(leaderboardKey, JSON.stringify(leaderboard)), then the
\* rank and the response
SubmitSet(session) ==
  /\ req[session].pc = "set"
  /\ LET r == req[session]
         db == redisSet(store, r.key, JSONstringify(r.leaderboard))
     IN  /\ store' = db
         /\ resp' = [resp EXCEPT ![session] =
              [code |-> 200, status |-> "success",
               rank |-> rankOf(r.leaderboard, r.username),
               message |-> "Score submitted successfully",
               body |-> r.body, username |-> r.username, key |-> r.key,
               seen |-> r.seen, outcome |-> r.outcome,
               stored |-> parseLeaderboard(redisGet(db, r.key)),
               reads |-> 1, writes |-> 1]]
  /\ req' = [req EXCEPT ![session] = NoRequest]
  /\ UNCHANGED <<day, view, nreq, served, submitted, fetch>>
  /\ UNCHANGED engine

(***************************************************************************)
(* GET /api/leaderboard?date=..&difficulty=..                               *)
(***************************************************************************)
\* the value Number.parseInt gives for a string that holds no number
NaN == -2

\* Number.parseInt(difficultyStr)
parseInt(str) ==
  CASE str = "3" -> 3
    [] str = "4" -> 4
    [] str = "7" -> 7
    [] str = "abc" -> NaN

\* c.req.query(name) of the requests sent: undefined when the parameter is
\* absent
Queries ==
  {[date |-> d, difficulty |-> x] :
     d \in {"", Dates[1]}, x \in {"", "3", "4", "7", "abc"}}

\* the handler: its response and the store it leaves
getLeaderboard(db, query, today) ==
  LET date == IF query.date = "" THEN today ELSE query.date
      difficultyStr == IF query.difficulty = "" THEN "3" ELSE query.difficulty
      difficulty == parseInt(difficultyStr)
  IN  IF difficulty # 3 /\ difficulty # 4 /\ difficulty # 5
      THEN [db |-> db, reads |-> 0, code |-> 400, status |-> "error",
            body |-> [message |-> "Invalid difficulty. Must be 3, 4, or 5"]]
      ELSE
        LET leaderboardStr == redisGet(db, leaderboardKey(date, difficulty))
        IN  [db |-> db, reads |-> 1, code |-> 200, status |-> "ok",
             body |-> [entries |-> parseLeaderboard(leaderboardStr),
                       date |-> date, difficulty |-> difficulty]]

GetLeaderboard(query) ==
  /\ \A s \in Sessions : req[s].pc = "idle"
  /\ LET r == getLeaderboard(store, query, Dates[day])
     IN  /\ store' = r.db
         /\ view' = [kind |-> "leaderboard", code |-> r.code,
                     status |-> r.status, body |-> r.body, query |-> query,
                     date |-> Dates[day], existed |-> FALSE,
                     changed |-> r.db # store, reads |-> r.reads]
  /\ UNCHANGED <<day, req, resp, nreq, served, submitted, fetch>>
  /\ UNCHANGED engine

(***************************************************************************)
(* GET /api/daily-state, and fetchDailyPuzzle, which the scheduler and the  *)
(* menu call.                                                               *)
(***************************************************************************)
\* a handler that looks under today's key only
getDailyStateTodayOnly(db, today) ==
  LET dailyStateStr == redisGet(db, dailyStateKey(today))
  IN  IF dailyStateStr = noValue
      THEN [db |-> db, reads |-> 1, code |-> 404, status |-> "error",
            body |-> [message |-> "Daily puzzle not yet initialized. Please wait for the scheduler to run."]]
      ELSE LET dailyState == JSONparse(dailyStateStr)
           IN  [db |-> db, reads |-> 1, code |-> 200, status |-> "ok",
                body |-> [imageUrl |-> dailyState.imageUrl,
                          postId |-> dailyState.postId,
                          shuffleSeed |-> dailyState.shuffleSeed,
                          date |-> dailyState.date]]

\* the handler: its response and the store it leaves
getDailyState(db, today) ==
  LET todayStr == redisGet(db, dailyStateKey(today))
      currentStr == redisGet(db, dailyStateKey("current"))
      dailyStateStr == IF todayStr = noValue THEN currentStr ELSE todayStr
      reads == IF todayStr = noValue THEN 2 ELSE 1
  IN  IF dailyStateStr = noValue
      THEN [db |-> db, reads |-> reads, code |-> 404, status |-> "error",
            body |-> [message |-> "Daily puzzle not yet initialized. Please wait for the scheduler to run."]]
      ELSE LET dailyState == JSONparse(dailyStateStr)
           IN  [db |-> db, reads |-> reads, code |-> 200, status |-> "ok",
                body |-> [imageUrl |-> dailyState.imageUrl,
                          postId |-> dailyState.postId,
                          shuffleSeed |-> dailyState.shuffleSeed,
                          date |-> dailyState.date]]

GetDailyState ==
  /\ LET r == getDailyState(store, Dates[day])
     IN  /\ store' = r.db
         /\ view' = [kind |-> "daily-state", code |-> r.code,
                     status |-> r.status, body |-> r.body, query |-> null,
                     date |-> Dates[day], existed |-> FALSE,
                     changed |-> r.db # store, reads |-> r.reads]
         /\ served' =
              IF r.code = 200
              THEN served \cup {[on |-> Dates[day],
                                 shuffleSeed |-> r.body.shuffleSeed,
                                 date |-> r.body.date]}
              ELSE served
  /\ UNCHANGED <<day, req, resp, nreq, submitted, fetch>>
  /\ UNCHANGED engine

\* what posts[0] of the hot listing of r/memes can be: nothing, a post with a
\* direct image url, one with a preview, one with neither.  "" stands for a
\* field that is absent
HotPosts ==
  {null,
   [id |-> "t3_a", preview |-> "", url |-> "https://i.redd.it/a.png",
    thumbnail |-> ""],
   [id |-> "t3_b", preview |-> "https://preview.redd.it/b.jpg?s=1&amp;v=2",
    url |-> "https://www.reddit.com/r/memes/b", thumbnail |-> "self"],
   [id |-> "t3_c", preview |-> "", url |-> "https://www.reddit.com/r/memes/c",
    thumbnail |-> "default"]}

\* previewUrl.replace(/&amp;/g, '&')
decodeAmp(url) ==
  IF url = "https://preview.redd.it/b.jpg?s=1&amp;v=2"
  THEN "https://preview.redd.it/b.jpg?s=1&v=2"
  ELSE url

\* /\.(jpg|jpeg|png|gif|webp)$/i.test(url)
hasImageExtension(url) == url \in {"https://i.redd.it/a.png"}

\* the url chosen from preview, url and thumbnail, "" for undefined
imageUrlOf(post) ==
  IF post.preview # "" THEN decodeAmp(post.preview)
  ELSE IF post.url # "" /\ hasImageExtension(post.url) THEN post.url
  ELSE IF post.thumbnail # "" /\ post.thumbnail # "self"
          /\ post.thumbnail # "default"
       THEN post.thumbnail
  ELSE ""

\* a fetch that does not look for today's record first
fetchDailyPuzzleAgain(db, today, post) ==
  IF post = null
  THEN [db |-> db, success |-> FALSE,
        message |-> <<"No hot posts found in r/memes">>]
  ELSE IF imageUrlOf(post) = ""
  THEN [db |-> db, success |-> FALSE, message |-> <<"Post has no image URL">>]
  ELSE
    LET dailyState == [imageUrl |-> imageUrlOf(post), postId |-> post.id,
                       shuffleSeed |-> hashString(today), date |-> today]
        db1 == redisSet(db, dailyStateKey(today), JSONstringify(dailyState))
        db2 == redisSet(db1, dailyStateKey("current"),
                        JSONstringify(dailyState))
    IN  [db |-> db2, success |-> TRUE,
         message |-> <<"Daily puzzle fetched for", today>>]

\* fetchDailyPuzzle(): its result and the store it leaves
fetchDailyPuzzle(db, today, post) ==
  IF redisGet(db, dailyStateKey(today)) # noValue
  THEN [db |-> db, success |-> TRUE,
        message |-> <<"Daily puzzle already exists for", today>>]
  ELSE IF post = null
  THEN [db |-> db, success |-> FALSE,
        message |-> <<"No hot posts found in r/memes">>]
  ELSE IF imageUrlOf(post) = ""
  THEN [db |-> db, success |-> FALSE, message |-> <<"Post has no image URL">>]
  ELSE
    LET dailyState == [imageUrl |-> imageUrlOf(post), postId |-> post.id,
                       shuffleSeed |-> hashString(today), date |-> today]
        db1 == redisSet(db, dailyStateKey(today), JSONstringify(dailyState))
        db2 == redisSet(db1, dailyStateKey("current"),
                        JSONstringify(dailyState))
    IN  [db |-> db2, success |-> TRUE,
         message |-> <<"Daily puzzle fetched for", today>>]

\* the status code of the caller's response
fetchCode(via, success) ==
  IF success THEN 200 ELSE IF via = "menu" THEN 400 ELSE 500

FetchDailyPuzzle(post, via) ==
  /\ LET r == fetchDailyPuzzle(store, Dates[day], post)
     IN  /\ store' = r.db
         /\ view' = [kind |-> "daily-fetch",
                     code |-> fetchCode(via, r.success),
                     status |-> IF r.success THEN "ok" ELSE "error",
                     body |-> [message |-> r.message],
                     query |-> [via |-> via, post |-> post],
                     date |-> Dates[day],
                     existed |->
                       redisGet(store, dailyStateKey(Dates[day])) # noValue,
                     changed |-> r.db # store, reads |-> 1]
  /\ UNCHANGED <<day, req, resp, nreq, served, submitted, fetch>>
  /\ UNCHANGED engine

\* 00:00 UTC passes
Midnight ==
  /\ day < Len(Dates)
  /\ day' = day + 1
  /\ UNCHANGED <<store, req, resp, view, nreq, served, submitted, fetch>>
  /\ UNCHANGED engine

(***************************************************************************)
(* fetchDailyPuzzle step by step (FetchSpec).  The function yields at       *)
(* redis.get, at listing.all() and at each of its two redis.set calls, so   *)
(* the job of the scheduler and the menu action may run interleaved; each   *)
(* awaited call may also throw, which the catch turns into a failure.       *)
(***************************************************************************)
\* invocations of fetchDailyPuzzle in one run
MaxFetches == 2

\* catch (error): return { success: false, message: errorMessage }
fetchFailed(f, via, message) ==
  [f EXCEPT !.pc = "idle",
            !.result = [success |-> FALSE, message |-> message],
            !.code = fetchCode(via, FALSE)]

\* return { success: true, message }
fetchSucceeded(f, via, message) ==
  [f EXCEPT !.pc = "idle",
            !.result = [success |-> TRUE, message |-> message],
            !.code = fetchCode(via, TRUE)]

\* const today = new Date().toISOString().split('T')[0], and the call of
\* redis.get
FetchStart(via) ==
  /\ nreq < MaxFetches
  /\ fetch[via].pc = "idle"
  /\ fetch' = [fetch EXCEPT ![via] =
       [NoFetch EXCEPT !.pc = "get", !.today = Dates[day], !.before = store]]
  /\ nreq' = nreq + 1
  /\ UNCHANGED <<day, store, req, resp, view, served, submitted>>
  /\ UNCHANGED engine

\* await redis.get(`daily_state:${today}`); if (existingState) return success
FetchGet(via, throws) ==
  /\ fetch[via].pc = "get"
  /\ LET f == fetch[via]
     IN  fetch' = [fetch EXCEPT ![via] =
           IF throws THEN fetchFailed(f, via, <<"redis.get">>)
           ELSE IF redisGet(store, dailyStateKey(f.today)) # noValue
           THEN fetchSucceeded(f, via,
                               <<"Daily puzzle already exists for", f.today>>)
           ELSE [f EXCEPT !.pc = "posts"]]
  /\ UNCHANGED <<day, store, req, resp, view, nreq, served, submitted>>
  /\ UNCHANGED engine

\* await listing.all(); post = posts[0]; the image url; the dailyState
FetchPosts(via, post, throws) ==
  /\ fetch[via].pc = "posts"
  /\ LET f == fetch[via]
     IN  fetch' = [fetch EXCEPT ![via] =
           IF throws THEN fetchFailed(f, via, <<"listing.all">>)
           ELSE IF post = null
           THEN fetchFailed(f, via, <<"No hot posts found in r/memes">>)
           ELSE IF imageUrlOf(post) = ""
           THEN fetchFailed(f, via, <<"Post has no image URL">>)
           ELSE [f EXCEPT !.pc = "set",
                          !.dailyState =
                            [imageUrl |-> imageUrlOf(post),
                             postId |-> post.id,
                             shuffleSeed |-> hashString(f.today),
                             date |-> f.today]]]
  /\ UNCHANGED <<day, store, req, resp, view, nreq, served, submitted>>
  /\ UNCHANGED engine

\* await redis.set(`daily_state:${today}`, JSON.stringify(dailyState))
FetchSetDate(via, throws) ==
  /\ fetch[via].pc = "set"
  /\ LET f == fetch[via]
     IN  IF throws
         THEN /\ fetch' = [fetch EXCEPT ![via] =
                            fetchFailed(f, via, <<"redis.set">>)]
              /\ UNCHANGED store
         ELSE /\ fetch' = [fetch EXCEPT ![via] =
                            [f EXCEPT !.pc = "setCurrent",
                                      !.writes = f.writes + 1]]
              /\ store' = redisSet(store, dailyStateKey(f.today),
                                   JSONstringify(f.dailyState))
  /\ UNCHANGED <<day, req, resp, view, nreq, served, submitted>>
  /\ UNCHANGED engine

\* await redis.set('daily_state:current', JSON.stringify(dailyState)), then
\* return success
FetchSetCurrent(via, throws) ==
  /\ fetch[via].pc = "setCurrent"
  /\ LET f == fetch[via]
     IN  IF throws
         THEN /\ fetch' = [fetch EXCEPT ![via] =
                            fetchFailed(f, via, <<"redis.set">>)]
              /\ UNCHANGED store
         ELSE /\ fetch' = [fetch EXCEPT ![via] =
                            fetchSucceeded(
                              [f EXCEPT !.writes = f.writes + 1], via,
                              <<"Daily puzzle fetched for", f.today>>)]
              /\ store' = redisSet(store, dailyStateKey("current"),
                                   JSONstringify(f.dailyState))
  /\ UNCHANGED <<day, req, resp, view, nreq, served, submitted>>
  /\ UNCHANGED engine

FetchInit ==
  /\ puzzle = null
  /\ rngState = null
  /\ call = NoCall
  /\ first = null
  /\ nmoves = 0
  /\ loop = null
  /\ game = NoGame
  /\ ServerIdle

FetchNext ==
  \/ \E via \in Callers : FetchStart(via)
  \/ \E via \in Callers, throws \in BOOLEAN : FetchGet(via, throws)
  \/ \E via \in Callers, post \in HotPosts, throws \in BOOLEAN :
       FetchPosts(via, post, throws)
  \/ \E via \in Callers, throws \in BOOLEAN : FetchSetDate(via, throws)
  \/ \E via \in Callers, throws \in BOOLEAN : FetchSetCurrent(via, throws)

FetchSpec == FetchInit /\ [][FetchNext]_vars

(***************************************************************************)
(* The store a run of requests starts from: empty, or with the table of     *)
(* (today, 3) full: Capacity players, each with one entry, in order.        *)
(***************************************************************************)
FullTable ==
  [k \in 1 .. Capacity |->
     [username |-> k,
      time |-> IF 2 * k <= Capacity THEN 1 ELSE 2,
      moves |-> IF 2 * k <= Capacity \/ 4 * k > 3 * Capacity THEN 2 ELSE 1,
      difficulty |-> 3, date |-> Dates[1]]]

FullStore ==
  redisSet(EmptyStore, leaderboardKey(Dates[1], 3), JSONstringify(FullTable))

ServerInit ==
  /\ puzzle = null
  /\ rngState = null
  /\ call = NoCall
  /\ first = null
  /\ nmoves = 0
  /\ loop = null
  /\ game = NoGame
  /\ day = 1
  /\ store \in {EmptyStore, FullStore}
  /\ req = [s \in Sessions |-> NoRequest]
  /\ resp = [s \in Sessions |-> NoResponse]
  /\ view = NoView
  /\ nreq = 0
  /\ served = {}
  /\ submitted = {}
  /\ fetch = [via \in Callers |-> NoFetch]

\* the requests arrive one after the other
ServerNext ==
  \/ \E session \in Sessions, body \in Bodies : SubmitRead(session, body, FALSE)
  \/ \E session \in Sessions : SubmitSet(session)

ServerSpec == ServerInit /\ [][ServerNext]_vars

\* a request may arrive while another one waits for the store
RaceNext ==
  \/ \E session \in Sessions, body \in Bodies : SubmitRead(session, body, TRUE)
  \/ \E session \in Sessions : SubmitSet(session)

RaceSpec == ServerInit /\ [][RaceNext]_vars

\* the handlers that serve the daily puzzle and the tables, over the days
DailyNext ==
  \/ GetDailyState
  \/ \E post \in HotPosts, via \in Callers : FetchDailyPuzzle(post, via)
  \/ \E query \in Queries : GetLeaderboard(query)
  \/ Midnight

DailySpec == ServerInit /\ [][DailyNext]_vars

(***************************************************************************)
(* The game client (ClientSpec): initGame, tile clicks, the timer, reset    *)
(* and the score it posts, with the server it talks to.                     *)
(*   puzzle  gameState.puzzle                                               *)
(*   game    the rest of gameState and timerInterval; now is Date.now() in  *)
(*           seconds, active the intervals set and not cleared, valid the   *)
(*           clicks since the last create that changed the board, posts the *)
(*           requests sent to /api/submit-score with the seed of the board  *)
(*           they were made on, delivered how many of them have arrived     *)
(*   call    whether initGame has run, and in call.since the clicks made    *)
(*           while gameState.isSolved was set                               *)
(*   nmoves  tile clicks in the run                                         *)
(***************************************************************************)
\* seconds that pass in one run
MaxTicks == 1

\* presses of the reset button in one run
MaxResets == 1

\* two consecutive days: on "2044-06-03" the 3x3 board is one move from
\* solved
PlayDates == <<"2044-06-03", "2044-06-04">>

\* the player of the game
player == 101

\* Mutant: a stopTimer that leaves the interval running.
stopTimerKeep(g) == g

\* stopTimer: if (timerInterval) { clearInterval(timerInterval);
\* timerInterval = null }
stopTimer(g) ==
  IF Falsy(g.timerInterval) THEN g
  ELSE [g EXCEPT !.active = g.active \ {g.timerInterval},
                 !.timerInterval = 0]

\* startTimer: if (timerInterval) return; startTime = Date.now();
\* timerInterval = window.setInterval(updateTimer, 100)
startTimer(g) ==
  IF ~Falsy(g.timerInterval) THEN g
  ELSE [g EXCEPT !.startTime = g.now,
                 !.timerInterval = g.intervals + 1,
                 !.intervals = g.intervals + 1,
                 !.active = g.active \cup {g.intervals + 1}]

\* updateTimer: if (!startTime) return;
\* elapsedTime = Math.floor((Date.now() - startTime) / 1000)
updateTimer(g) ==
  IF Falsy(g.startTime) THEN g
  ELSE [g EXCEPT !.elapsedTime = g.now - g.startTime]

\* showSolvedOverlay and submitScore up to its fetch: the body posted, and
\* the seed of the board it was made on
submitScore(g, p) ==
  IF p = null THEN g
  ELSE [g EXCEPT !.posts =
          Append(g.posts,
                 [body |-> [time |-> g.elapsedTime, moves |-> g.moves,
                            difficulty |-> g.difficulty],
                  seed |-> g.dailyState.shuffleSeed,
                  size |-> p.size])]

\* Mutant: a click handler that counts the click before it tries the move.
handleTileClickCountsAll(g, p, tileIndex) ==
  IF p = null \/ g.isSolved THEN [game |-> g, puzzle |-> p]
  ELSE
    LET newPuzzle == makeMove(p, tileIndex).ret
        counted == [g EXCEPT !.moves = g.moves + 1]
        moved == [counted EXCEPT !.valid = g.valid + 1]
        timed == IF moved.moves = 1 THEN startTimer(moved) ELSE moved
    IN  IF newPuzzle = null THEN [game |-> counted, puzzle |-> p]
        ELSE IF isSolved(newPuzzle)
        THEN [game |-> submitScore(
                         stopTimer([timed EXCEPT !.isSolved = TRUE]),
                         newPuzzle),
              puzzle |-> newPuzzle]
        ELSE [game |-> timed, puzzle |-> newPuzzle]

\* Mutant: a click handler that does not look at gameState.isSolved.
handleTileClickWhenSolved(g, p, tileIndex) ==
  IF p = null THEN [game |-> g, puzzle |-> p]
  ELSE
    LET newPuzzle == makeMove(p, tileIndex).ret
        moved == [g EXCEPT !.moves = g.moves + 1, !.valid = g.valid + 1]
        timed == IF moved.moves = 1 THEN startTimer(moved) ELSE moved
    IN  IF newPuzzle = null THEN [game |-> g, puzzle |-> p]
        ELSE IF isSolved(newPuzzle)
        THEN [game |-> submitScore(
                         stopTimer([timed EXCEPT !.isSolved = TRUE]),
                         newPuzzle),
              puzzle |-> newPuzzle]
        ELSE [game |-> timed, puzzle |-> newPuzzle]

\* handleTileClick(tileIndex): the gameState and the puzzle it leaves
handleTileClick(g, p, tileIndex) ==
  IF p = null \/ g.isSolved THEN [game |-> g, puzzle |-> p]
  ELSE
    LET newPuzzle == makeMove(p, tileIndex).ret
        moved == [g EXCEPT !.moves = g.moves + 1, !.valid = g.valid + 1]
        timed == IF moved.moves = 1 THEN startTimer(moved) ELSE moved
    IN  IF newPuzzle = null THEN [game |-> g, puzzle |-> p]
        ELSE IF isSolved(newPuzzle)
        THEN [game |-> submitScore(
                         stopTimer([timed EXCEPT !.isSolved = TRUE]),
                         newPuzzle),
              puzzle |-> newPuzzle]
        ELSE [game |-> timed, puzzle |-> newPuzzle]

\* resetPuzzle(), for a gameState with a dailyState
resetPuzzle(g) ==
  [game |-> stopTimer([g EXCEPT !.moves = 0, !.startTime = 0,
                                !.elapsedTime = 0, !.isSolved = FALSE,
                                !.valid = 0, !.resets = g.resets + 1]),
   puzzle |-> createShuffledPuzzle(g.difficulty, g.dailyState.shuffleSeed)]

\* initGame has run
step(op) == [NoCall EXCEPT !.op = op]

\* initGame(): the difficulty kept in localStorage, GET /api/daily-state,
\* and the puzzle of (difficulty, shuffleSeed); an error response leaves the
\* game without a puzzle
ClientInitGame(difficulty) ==
  /\ call.op = "none"
  /\ LET r == getDailyState(store, PlayDates[day])
     IN  IF r.code = 200
         THEN /\ game' = [game EXCEPT !.difficulty = difficulty,
                                      !.dailyState = r.body]
              /\ puzzle' = createShuffledPuzzle(difficulty, r.body.shuffleSeed)
         ELSE /\ game' = [game EXCEPT !.difficulty = difficulty]
              /\ UNCHANGED puzzle
  /\ call' = step("initGame")
  /\ UNCHANGED <<rngState, first, nmoves, loop>>
  /\ UNCHANGED server

\* the tiles on the screen: one for each cell of the grid
Cells(p) == IF p = null THEN {} ELSE 0 .. (p.size * p.size - 1)

\* a click on the tile at tileIndex
HandleTileClick(tileIndex) ==
  /\ puzzle # null
  /\ nmoves < MaxMoves
  /\ LET r == handleTileClick(game, puzzle, tileIndex)
     IN  /\ game' = r.game
         /\ puzzle' = r.puzzle
  /\ call' = [call EXCEPT !.since = IF game.isSolved THEN call.since + 1
                                     ELSE call.since]
  /\ nmoves' = nmoves + 1
  /\ UNCHANGED <<rngState, first, loop>>
  /\ UNCHANGED server

\* a second passes while an interval is set, which calls updateTimer; the
\* time that passes while none is set is not looked at: Date.now() is read
\* by startTimer and by updateTimer only
Tick ==
  /\ game.now < 1 + MaxTicks
  /\ game.active # {}
  /\ game' = updateTimer([game EXCEPT !.now = game.now + 1])
  /\ UNCHANGED <<puzzle, rngState, call, first, nmoves, loop>>
  /\ UNCHANGED server

\* a press of the reset button: if (!gameState.dailyState) return
ClientResetPuzzle ==
  /\ call.op # "none"
  /\ game.resets < MaxResets
  /\ IF game.dailyState = null
     THEN /\ game' = [game EXCEPT !.resets = game.resets + 1]
          /\ UNCHANGED puzzle
     ELSE /\ game' = resetPuzzle(game).game
          /\ puzzle' = resetPuzzle(game).puzzle
  /\ UNCHANGED <<rngState, call, first, nmoves, loop>>
  /\ UNCHANGED server

\* a posted score arrives at POST /api/submit-score, which runs to its
\* response
ScoreArrives ==
  /\ game.delivered < Len(game.posts)
  /\ LET post == game.posts[game.delivered + 1]
         r == submitRead(store, player, post.body, PlayDates[day])
     IN  /\ store' = IF r.done THEN r.db
                     ELSE redisSet(r.db, r.req.key,
                                   JSONstringify(r.req.leaderboard))
         /\ submitted' =
              IF r.done /\ r.resp.status = "error" THEN submitted
              ELSE submitted \cup
                     {[username |-> player,
                       key |-> leaderboardKey(PlayDates[day],
                                              post.body.difficulty),
                       time |-> post.body.time, moves |-> post.body.moves,
                       seed |-> post.seed]}
  /\ game' = [game EXCEPT !.delivered = game.delivered + 1]
  /\ UNCHANGED <<puzzle, rngState, call, first, nmoves, loop>>
  /\ UNCHANGED <<day, req, resp, view, nreq, served, fetch>>

\* the hot posts of the days of play: one with an image
PlayPosts == {post \in HotPosts : post # null /\ post.id = "t3_a"}

\* the daily fetch runs on the server, alone
DailyFetchRuns(post) ==
  /\ store' = fetchDailyPuzzle(store, PlayDates[day], post).db
  /\ store' # store
  /\ UNCHANGED <<day, req, resp, view, nreq, served, submitted, fetch>>
  /\ UNCHANGED engine

\* 00:00 UTC passes
DayChanges ==
  /\ day < Len(PlayDates)
  /\ day' = day + 1
  /\ UNCHANGED <<store, req, resp, view, nreq, served, submitted, fetch>>
  /\ UNCHANGED engine

ClientInit ==
  /\ puzzle = null
  /\ rngState = null
  /\ call = NoCall
  /\ first = null
  /\ nmoves = 0
  /\ loop = null
  /\ game = NoGame
  /\ day = 1
  /\ store = EmptyStore
  /\ req = [s \in Sessions |-> NoRequest]
  /\ resp = [s \in Sessions |-> NoResponse]
  /\ view = NoView
  /\ nreq = 0
  /\ served = {}
  /\ submitted = {}
  /\ fetch = [via \in Callers |-> NoFetch]

ClientNext ==
  \/ \E difficulty \in Sizes : ClientInitGame(difficulty)
  \/ \E tileIndex \in Cells(puzzle) : HandleTileClick(tileIndex)
  \/ Tick
  \/ ClientResetPuzzle
  \/ ScoreArrives
  \/ \E post \in PlayPosts : DailyFetchRuns(post)
  \/ DayChanges

ClientSpec == ClientInit /\ [][ClientNext]_vars

(***************************************************************************)
(* Properties.                                                              *)
(***************************************************************************)
\* grid is a permutation of 0 .. size*size-1
IsPermutation(grid, size) ==
  /\ DOMAIN grid = 0 .. size * size - 1
  /\ {grid[i] : i \in DOMAIN grid} = 0 .. size * size - 1

\* cells e and t of a size x size grid are neighbours in a row or a column
Orthogonal(size, e, t) ==
  /\ e \in 0 .. size * size - 1
  /\ t \in 0 .. size * size - 1
  /\ LET re == e \div size
         ce == e % size
         rt == t \div size
         ct == t % size
     IN \/ re = rt /\ (ce - ct = 1 \/ ct - ce = 1)
        \/ ce = ct /\ (re - rt = 1 \/ rt - re = 1)

\* the solved PuzzleState of a size
solvedState(size) ==
  [grid |-> solvedGrid(size), emptyIndex |-> size * size - 1, size |-> size]

SlideParity(p) ==
  IF p.size % 2 = 1
  THEN countInversions(p.grid, p.size) % 2
  ELSE (countInversions(p.grid, p.size) + getEmptyRow(p.grid, p.size)) % 2

\* C2: the solved board is reachable by valid moves from the board returned
\* by createShuffledPuzzle; stated by what reachability needs, that the board
\* returned and the solved board agree on the quantity no valid move changes.
C2_SolvedReachable ==
  call.op = "create" => SlideParity(call.ret) = SlideParity(solvedState(call.size))

\* C3: in every state reached from a createShuffledPuzzle result by makeMove
\* calls, valid or not, grid is a permutation of 0..size*size-1 and
\* grid[emptyIndex] is size*size-1.
C3_PermutationInvariant ==
  puzzle # null =>
    /\ IsPermutation(puzzle.grid, puzzle.size)
    /\ puzzle.emptyIndex \in DOMAIN puzzle.grid
    /\ puzzle.grid[puzzle.emptyIndex] = puzzle.size * puzzle.size - 1

C3_Witness ==
  /\ call.op = "move" /\ call.ret = null
  /\ nmoves >= 2
  /\ puzzle # first.ret

C5_ValidIffOrthogonal ==
  puzzle # null =>
    \A e \in DOMAIN puzzle.grid : \A t \in DOMAIN puzzle.grid :
      isValidMove([puzzle EXCEPT !.emptyIndex = e], t)
        <=> Orthogonal(puzzle.size, e, t)

\* a call on the first cell of the row after the empty cell's, refused
C5_Witness ==
  /\ call.op = "move" /\ call.ret = null
  /\ call.tile = call.before.emptyIndex + 1
  /\ call.tile \in DOMAIN call.before.grid
  /\ call.tile % call.size = 0

\* C6: makeMove on a tileIndex that is not adjacent to emptyIndex (emptyIndex
\* itself included) returns null and leaves grid, emptyIndex and size of the
\* state passed in unchanged.
C6_InvalidMoveRefused ==
  (call.op = "move"
   /\ ~Orthogonal(call.before.size, call.before.emptyIndex, call.tile)) =>
    /\ call.ret = null
    /\ call.after = call.before

C6_Witness ==
  /\ call.op = "move"
  /\ call.tile = call.before.emptyIndex
  /\ call.ret = null

\* C7: makeMove on a tileIndex outside 0..size*size-1 returns null and leaves
\* the state passed in unchanged.
C7_OutOfRangeRefused ==
  (call.op = "move" /\ call.tile \notin 0 .. call.size * call.size - 1) =>
    /\ call.ret = null
    /\ call.after = call.before

\* an index outside the grid that isValidMove accepts, refused by makeMove
C7_Witness ==
  /\ call.op = "move"
  /\ call.tile \notin 0 .. call.size * call.size - 1
  /\ isValidMove(call.before, call.tile)
  /\ call.ret = null

\* C8: a valid move returns a state whose grid is the grid passed in with the
\* cells tileIndex and emptyIndex swapped and every other cell unchanged,
\* whose emptyIndex is tileIndex and whose size is unchanged; the state passed
\* in is not mutated.
C8_ValidMoveSwaps ==
  (call.op = "move" /\ call.ret # null) =>
    /\ DOMAIN call.ret.grid = DOMAIN call.before.grid
    /\ \A i \in DOMAIN call.before.grid :
         call.ret.grid[i] =
           IF i = call.tile THEN call.before.grid[call.before.emptyIndex]
           ELSE IF i = call.before.emptyIndex THEN call.before.grid[call.tile]
           ELSE call.before.grid[i]
    /\ call.ret.emptyIndex = call.tile
    /\ call.ret.size = call.before.size
    /\ call.after = call.before

C8_Witness ==
  /\ call.op = "move" /\ call.ret # null
  /\ call.tile # call.before.emptyIndex
  /\ call.ret.grid # call.before.grid

\* C9: from every state and for every tile next to the empty cell, the move
\* succeeds, moving the same tile back succeeds, and the result has the grid
\* and the emptyIndex of the state started from.
C9_MoveThenBack ==
  puzzle # null =>
    \A t \in DOMAIN puzzle.grid :
      Orthogonal(puzzle.size, puzzle.emptyIndex, t) =>
        LET there == makeMove(puzzle, t).ret
        IN /\ there # null
           /\ LET back == makeMove(there, puzzle.emptyIndex).ret
              IN /\ back # null
                 /\ back.grid = puzzle.grid
                 /\ back.emptyIndex = puzzle.emptyIndex

\* two calls after create, the second one valid, and the created board again
C9_Witness ==
  /\ call.op = "move" /\ call.ret # null
  /\ nmoves = 2
  /\ puzzle = first.ret

\* C10: isSolved is true exactly on the identity grid, and false on the state
\* any single valid move makes of the solved board.
C10_SolvedIffIdentity ==
  puzzle # null =>
    /\ isSolved(puzzle) <=> puzzle.grid = solvedGrid(puzzle.size)
    /\ \A t \in DOMAIN puzzle.grid :
         LET m == makeMove(solvedState(puzzle.size), t)
         IN m.ret # null => ~isSolved(m.ret)
    /\ (call.op = "move" /\ call.ret # null /\ isSolved(call.before)) =>
         ~isSolved(call.ret)

\* the solved board reached by play, and a valid move made on it
C10_Witness ==
  /\ call.op = "move" /\ call.ret # null
  /\ isSolved(call.before)
  /\ ~isSolved(puzzle)

(***************************************************************************)
(* Properties of the submit-score handler.  resp[s] is the last response to *)
(* session s: the body it answers, the table the handler read (seen) and    *)
(* the table under the key when it answered (stored).                       *)
(***************************************************************************)
hasEntry(leaderboard, username) ==
  \E k \in DOMAIN leaderboard : leaderboard[k].username = username

theEntry(leaderboard, username) ==
  leaderboard[CHOOSE k \in DOMAIN leaderboard :
                leaderboard[k].username = username]

\* the places of the table that hold the score of the request answered by r
placesOfNew(leaderboard, r) ==
  {k \in DOMAIN leaderboard :
     /\ leaderboard[k].username = r.username
     /\ leaderboard[k].time = r.body.time
     /\ leaderboard[k].moves = r.body.moves}

\* ascending by time, then by moves
isSorted(leaderboard) ==
  \A k \in 1 .. Len(leaderboard) - 1 :
    ~isBetter(leaderboard[k + 1], leaderboard[k])

\* the request answered by r came from a player whose entry in the table was
\* strictly worse than the submitted score
submittedBetter(r) ==
  /\ r.body # null
  /\ hasEntry(r.seen, r.username)
  /\ isBetter(r.body, theEntry(r.seen, r.username))

submittedNoBetter(r) ==
  /\ r.body # null
  /\ hasEntry(r.seen, r.username)
  /\ ~isBetter(r.body, theEntry(r.seen, r.username))

\* C12: when a player who has an entry submits a (time, moves) that is not
\* strictly smaller, the handler writes nothing, the table stays as it was
\* read, the answer is a success and the rank is one plus the number of
\* entries strictly better than the player's stored entry
C12_WorseScoreKeepsTable ==
  \A s \in Sessions :
    LET r == resp[s]
        existing == theEntry(r.seen, r.username)
    IN  submittedNoBetter(r) =>
          /\ r.status = "success"
          /\ r.writes = 0
          /\ r.stored = r.seen
          /\ r.rank = 1 + Cardinality({k \in DOMAIN r.seen :
                          \/ r.seen[k].time < existing.time
                          \/ /\ r.seen[k].time = existing.time
                             /\ r.seen[k].moves < existing.moves})

\* a player resubmits the same score, behind others with a better one
C12_Witness ==
  \E s \in Sessions :
    /\ submittedNoBetter(resp[s])
    /\ resp[s].body.time = theEntry(resp[s].seen, resp[s].username).time
    /\ resp[s].body.moves = theEntry(resp[s].seen, resp[s].username).moves
    /\ resp[s].rank > 1

\* the entries the handler chooses from: those it read, without the player's
\* old one, and the new one
candidates(r) ==
  {r.seen[k] : k \in {j \in DOMAIN r.seen : r.seen[j].username # r.username}}
  \cup {entryOf(r.username, r.body, r.key[2])}

entriesOf(leaderboard) == {leaderboard[k] : k \in DOMAIN leaderboard}

dropped(r) == candidates(r) \ entriesOf(r.stored)

\* C13: the table written after an append or a replace has at most Capacity
\* entries, all of them candidates, and no entry left out is strictly
\* better than one that was kept
C13_TruncatedToBest ==
  \A s \in Sessions :
    LET r == resp[s]
    IN  r.writes = 1 =>
          /\ Len(r.stored) <= Capacity
          /\ entriesOf(r.stored) \subseteq candidates(r)
          /\ Len(r.stored) = Cardinality(entriesOf(r.stored))
          /\ Cardinality(candidates(r)) > Capacity
                => Len(r.stored) = Capacity
          /\ \A d \in dropped(r), e \in entriesOf(r.stored) : ~isBetter(d, e)

\* a new player enters a full table and the last entry is left out
C13_Witness ==
  \E s \in Sessions :
    /\ resp[s].writes = 1
    /\ Len(resp[s].seen) = Capacity
    /\ hasEntry(resp[s].stored, resp[s].username)
    /\ dropped(resp[s]) # {}

\* the leaderboard tables in the store
tables == {key \in DOMAIN store : key[1] = "leaderboard"}

tableAt(key) == parseLeaderboard(redisGet(store, key))

\* C14: every stored table holds at most one entry per username
C14_OneEntryPerUser ==
  \A key \in tables :
    LET t == tableAt(key)
    IN  Cardinality({t[k].username : k \in DOMAIN t}) = Len(t)

\* a player has submitted twice for the same table, and has been written twice
C14_Witness ==
  \E s \in Sessions :
    /\ resp[s].outcome = "replaced"
    /\ resp[s].key \in tables
    /\ hasEntry(tableAt(resp[s].key), resp[s].username)
    /\ nreq >= 2

\* C15: every stored table is in ascending order of time, then of moves:
\* each entry is at most the next one
C15_TablesSorted ==
  \A key \in tables :
    LET t == tableAt(key)
    IN  \A k \in 1 .. Len(t) - 1 :
          \/ t[k].time < t[k + 1].time
          \/ /\ t[k].time = t[k + 1].time
             /\ t[k].moves <= t[k + 1].moves

\* a new entry was written between better and worse ones
C15_Witness ==
  \E s \in Sessions :
    /\ resp[s].writes = 1
    /\ resp[s].key \in tables
    /\ resp[s].stored = tableAt(resp[s].key)
    /\ resp[s].rank > 1
    /\ resp[s].rank < Len(resp[s].stored)

\* C16: every success answered after an append or a replace carries the place
\* of the submitter's entry in the table written: a rank in 1 .. Capacity at
\* which the table holds the submitter
C16_RankIsPlace ==
  \A s \in Sessions :
    LET r == resp[s]
    IN  (r.status = "success" /\ r.writes = 1) =>
          /\ r.rank \in 1 .. Capacity
          /\ r.rank \in DOMAIN r.stored
          /\ r.stored[r.rank].username = r.username

(***************************************************************************)
(* Overlapping submit-score requests (RaceSpec).                            *)
(***************************************************************************)
\* the last requests of players a and b both wrote the table of one key and
\* both had read the same contents of it
sameRead(a, b) ==
  /\ a # b
  /\ resp[a].status = "success" /\ resp[a].writes = 1
  /\ resp[b].status = "success" /\ resp[b].writes = 1
  /\ resp[a].key = resp[b].key
  /\ resp[a].seen = resp[b].seen

\* C17: two requests of two players for one key can both read the table
\* before either writes; then the later write replaces the earlier one, and
\* the table under the key never holds both new entries, though both
\* requests were answered with a success
C17_SameReadLosesUpdate ==
  \A a, b \in Players :
    sameRead(a, b) =>
      \/ placesOfNew(tableAt(resp[a].key), resp[a]) = {}
      \/ placesOfNew(tableAt(resp[b].key), resp[b]) = {}

\* both answered, the table had room for both entries, and it holds the
\* entry of one player only
C17_Witness ==
  \E a, b \in Players :
    /\ sameRead(a, b)
    /\ Len(resp[a].seen) + 2 <= Capacity
    /\ placesOfNew(tableAt(resp[a].key), resp[a]) = {}
    /\ placesOfNew(tableAt(resp[b].key), resp[b]) # {}
    /\ Len(tableAt(resp[a].key)) = Len(resp[a].seen) + 1

(***************************************************************************)
(* Validation of the requests.                                              *)
(***************************************************************************)
\* the body carries no time, no moves or no difficulty
lacksField(body) ==
  body.time = undefined \/ body.moves = undefined
  \/ body.difficulty = undefined

\* C18: a submit-score body without time, moves or difficulty is answered
\* with an error before the store is touched: no read, no write, no write
\* pending, and no table under a key without difficulty
C18_MissingFieldRejected ==
  /\ \A s \in Sessions :
        /\ (resp[s].body # null /\ lacksField(resp[s].body)) =>
              /\ resp[s].status = "error"
              /\ resp[s].code = 400
              /\ resp[s].reads = 0
              /\ resp[s].writes = 0
        /\ req[s].pc = "set" => ~lacksField(req[s].body)
  /\ \A key \in tables : key[3] # undefined

\* a logged-in player has sent a body without difficulty and got the error
C18_Witness ==
  \E s \in Players :
    /\ resp[s].body # null
    /\ resp[s].body.difficulty = undefined
    /\ resp[s].body.time # undefined
    /\ resp[s].body.moves # undefined
    /\ resp[s].status = "error"

\* C19: a request whose difficulty is not 3, 4 or 5 is answered with an
\* error, and no table exists under a key of such a difficulty
C19_DifficultyValidated ==
  /\ \A s \in Sessions :
        (resp[s].body # null /\ resp[s].body.difficulty \notin {3, 4, 5})
          => resp[s].status = "error"
  /\ view.kind = "leaderboard" =>
        (view.status = "error" <=>
           view.query.difficulty \notin {"", "3", "4", "5"})
  /\ \A key \in tables : key[3] \in {3, 4, 5}

(***************************************************************************)
(* GET /api/daily-state (DailySpec).  The daily_state keys are written by   *)
(* fetchDailyPuzzle only, whose result replaces view, so while view holds   *)
(* the response of GET /api/daily-state the store holds what the handler    *)
(* read.                                                                    *)
(***************************************************************************)
dailyRecord(name) == redisGet(store, dailyStateKey(name))

\* the response body that carries the record stored as str
bodyOf(str) ==
  [imageUrl |-> JSONparse(str).imageUrl, postId |-> JSONparse(str).postId,
   shuffleSeed |-> JSONparse(str).shuffleSeed, date |-> JSONparse(str).date]

\* C20: GET /api/daily-state leaves the store as it is; it answers 404 with
\* an error exactly when neither daily_state:<today> nor daily_state:current
\* exists; otherwise it returns the record of daily_state:<today> when that
\* exists and the record of daily_state:current when it does not
C20_DailyStateReadOnly ==
  view.kind = "daily-state" =>
    /\ ~view.changed
    /\ (dailyRecord(view.date) = noValue /\ dailyRecord("current") = noValue)
         <=> (view.code = 404 /\ view.status = "error")
    /\ dailyRecord(view.date) # noValue =>
         view.body = bodyOf(dailyRecord(view.date))
    /\ (dailyRecord(view.date) = noValue /\ dailyRecord("current") # noValue)
         => view.body = bodyOf(dailyRecord("current"))

\* on the second day, before the fetch of that day, the handler has returned
\* the record of the first day
C20_Witness ==
  /\ view.kind = "daily-state"
  /\ view.date = Dates[2]
  /\ dailyRecord(view.date) = noValue
  /\ view.code = 200
  /\ view.body.date = Dates[1]
  /\ view.body.shuffleSeed = hashString(Dates[1])

(***************************************************************************)
(* The daily record over the days (DailySpec).                              *)
(***************************************************************************)
\* C21: when a record exists under daily_state:<today>, a call of
\* fetchDailyPuzzle, from the scheduler or from the menu and whatever
\* posts[0] is, reports success and leaves the store as it was
C21_FetchKeepsRecord ==
  (view.kind = "daily-fetch" /\ view.existed) =>
    /\ view.status = "ok"
    /\ view.code = 200
    /\ ~view.changed

\* the menu has asked for a fetch on a day that has its record, while the
\* hot post was another one with an image
C21_Witness ==
  /\ view.kind = "daily-fetch"
  /\ view.existed
  /\ view.query.via = "menu"
  /\ view.query.post # null
  /\ imageUrlOf(view.query.post) # ""
  /\ view.query.post.id # JSONparse(dailyRecord(view.date)).postId

\* C22: two successful daily-state responses served on the same date carry
\* the same shuffleSeed and the same date
C22_OneSeedPerDay ==
  \A a, b \in served :
    a.on = b.on => (a.shuffleSeed = b.shuffleSeed /\ a.date = b.date)

(***************************************************************************)
(* The generator (RngSpec).                                                 *)
(***************************************************************************)
\* C23: after every call of next() the state is in 0 .. 2^32 - 1, so that
\* the value returned, state / 2^32, is in [0, 1); and for a state s before
\* the call small enough for s * 1664525 + 1013904223 to need no reduction,
\* the state after the call is that number
C23_StateInRange ==
  call.op = "next" =>
    /\ rngState.hi \in 0 .. Half - 1
    /\ rngState.lo \in 0 .. Half - 1
    /\ call.ret = rngState
    /\ (call.before.hi = 0 /\ call.before.lo <= Increment \div Multiplier) =>
         rngState.hi * Half + rngState.lo
           = call.before.lo * Multiplier + Increment

(***************************************************************************)
(* The do-while loop of createShuffledPuzzle (LoopSpec).  loop.attempts is  *)
(* the counter of the code: the shuffles drawn so far.                      *)
(***************************************************************************)
\* the identity with its last two cells swapped
lastTwoSwapped(size) ==
  [i \in 0 .. size * size - 1 |->
     IF i = size * size - 1 THEN size * size - 2
     ELSE IF i = size * size - 2 THEN size * size - 1
     ELSE i]

\* the loop goes on only after a shuffle that fails the predicate, and a
\* board that is not the fallback is a shuffle that passes it
returnsFirstPassing ==
  /\ (~loop.done /\ loop.grid # null) => ~isSolvable(loop.grid, loop.size)
  /\ (loop.done /\ ~loop.fallback) =>
       /\ isSolvable(loop.grid, loop.size)
       /\ loop.attempts <= MaxAttempts
  /\ (loop.done /\ loop.fallback) => loop.grid = lastTwoSwapped(loop.size)

distance(size, a, b) ==
  Abs((a \div size) - (b \div size)) + Abs((a % size) - (b % size))

\* how much closer to its target the tile at cell t gets when it moves into
\* the empty cell
gain(p, t) ==
  distance(p.size, t, p.grid[t]) - distance(p.size, p.emptyIndex, p.grid[t])

\* the cells up, down, left and right of the empty one, in this order
around(p) ==
  <<p.emptyIndex - p.size, p.emptyIndex + p.size,
    p.emptyIndex - 1, p.emptyIndex + 1>>

\* the places of around(p) that are cells next to the empty one
candidatePlaces(p) ==
  {k \in 1 .. 4 : Orthogonal(p.size, p.emptyIndex, around(p)[k])}

\* the hint is the first tile, in the order up, down, left, right, whose
\* score is the greatest among the tiles next to the empty cell
firstOfBest(p, hint) ==
  /\ hint # null
  /\ \E k \in candidatePlaces(p) :
       /\ around(p)[k] = hint.tile
       /\ \A j \in candidatePlaces(p) :
            /\ gain(p, around(p)[j]) <= gain(p, around(p)[k])
            /\ j < k => gain(p, around(p)[j]) < gain(p, around(p)[k])

\* C25 as stated: for every board the hint is the first tile of greatest
\* score among the tiles next to the empty cell
C25_HintIsFirstOfBest ==
  call.op = "hint" => firstOfBest(call.before, call.ret)

\* C25, amended: when some tile next to the empty cell does not get further
\* from its target by moving, the hint is the first tile of greatest score;
\* when every such tile gets further, the hint is null
C25_HintIsFirstOfBestOrNull ==
  call.op = "hint" =>
    IF \E k \in candidatePlaces(call.before) :
         gain(call.before, around(call.before)[k]) >= 0
    THEN firstOfBest(call.before, call.ret)
    ELSE call.ret = null

\* a hint was given where a later tile has the same score as the one
\* returned
C25_Witness ==
  /\ call.op = "hint"
  /\ call.ret # null
  /\ \E j, k \in candidatePlaces(call.before) :
       /\ k < j
       /\ around(call.before)[k] = call.ret.tile
       /\ gain(call.before, around(call.before)[j])
            = gain(call.before, call.ret.tile)

\* C26: a tile returned as the hint does not get further from its target
\* cell by its move
C26_HintNeverMovesAway ==
  (call.op = "hint" /\ call.ret # null) =>
    distance(call.size, call.before.emptyIndex,
             call.before.grid[call.ret.tile])
      <= distance(call.size, call.ret.tile, call.before.grid[call.ret.tile])

\* a hint was given on a board where another tile next to the empty cell
\* would have moved away from its target
C26_Witness ==
  /\ call.op = "hint"
  /\ call.ret # null
  /\ \E k \in candidatePlaces(call.before) :
       gain(call.before, around(call.before)[k]) < 0

(***************************************************************************)
(* The best score of a player (ServerSpec).  submitted holds the scores of  *)
(* the requests that passed the validation and reached the table.           *)
(***************************************************************************)
\* the scores a player has submitted for a key
submittedBy(username, key) ==
  {h \in submitted : h.username = username /\ h.key = key}

C28_SolvedIsSolvable ==
  (puzzle # null /\ \A i \in DOMAIN puzzle.grid : puzzle.grid[i] = i) =>
    isSolvable(puzzle.grid, puzzle.size)

\* C29: a valid makeMove on a board that is a permutation leaves the value
\* of isSolvable as it was
C29_MoveKeepsSolvability ==
  (/\ call.op = "move"
   /\ call.ret # null
   /\ IsPermutation(call.before.grid, call.size)) =>
    (isSolvable(call.ret.grid, call.size)
       <=> isSolvable(call.before.grid, call.size))

\* a tile of a 4x4 board has moved up or down, on a board that passes the
\* predicate
C29_Witness ==
  /\ call.op = "move"
  /\ call.ret # null
  /\ call.size = 4
  /\ IsPermutation(call.before.grid, call.size)
  /\ Abs(call.tile - call.before.emptyIndex) = call.size
  /\ isSolvable(call.before.grid, call.size)

\* C30: for a tile index below 0 or at least size * size, isValidMove is
\* false wherever the empty cell is
C30_OutOfRangeIsInvalid ==
  puzzle # null =>
    \A tileIndex \in TileIndices(puzzle) :
      (tileIndex < 0 \/ tileIndex >= puzzle.size * puzzle.size) =>
        ~isValidMove(puzzle, tileIndex)

(***************************************************************************)
(* The generator in double precision (RngSpec).                             *)
(***************************************************************************)
\* an integer top * 2^32 + hi * 2^16 + lo below 2^53, which a double holds
\* exactly
belowTwoTo53(p) == p.top >= 0 /\ p.top < 2^21

\* C31: for a state in 0 .. 2^32 - 1, currentSeed * 1664525 + 1013904223 is
\* below 2^53, and the state after next() is that integer modulo 2^32
C31_ProductIsExact ==
  (call.op = "next" /\ call.before.hi >= 0) =>
    /\ belowTwoTo53(exactProduct(call.before))
    /\ rngState.hi = exactProduct(call.before).hi
    /\ rngState.lo = exactProduct(call.before).lo

\* next() has been called on the largest state, 2^32 - 1, whose product is
\* above 2^52
C31_Witness ==
  /\ call.op = "next"
  /\ call.before = [hi |-> Half - 1, lo |-> Half - 1]
  /\ exactProduct(call.before).top >= 2^20
  /\ rngState.hi \in 0 .. Half - 1

(***************************************************************************)
(* The two ranks of the submit-score handler (ServerSpec).                  *)
(***************************************************************************)
\* C32: the rank answered when the stored score is kept is the place of the
\* player's entry in the stored table, one plus its index
C32_RetainedRankIsPlace ==
  \A s \in Sessions :
    LET r == resp[s]
    IN  (r.body # null /\ r.status = "success" /\ r.outcome = "retained") =>
          r.rank = findIndex(r.stored, r.username) + 1

\* C33: a logged-in player's body with time 0, moves at least 1 and a
\* difficulty of 3, 4 or 5 is answered with a success and the player has an
\* entry in the table afterwards
C33_ZeroTimeAccepted ==
  \A s \in Players :
    LET r == resp[s]
    IN  (/\ r.body # null
         /\ r.body.time = 0
         /\ r.body.moves # undefined /\ r.body.moves >= 1
         /\ r.body.difficulty \in {3, 4, 5}) =>
          /\ r.status = "success"
          /\ hasEntry(r.stored, s)

(***************************************************************************)
(* fetchDailyPuzzle interleaved and failing (FetchSpec).                    *)
(***************************************************************************)
\* C34: once a record stands under daily_state:<date>, no step of an
\* invocation of fetchDailyPuzzle replaces it by a different record
C34_RecordWrittenOnce ==
  [][\A d \in 1 .. Len(Dates) :
       dailyRecord(Dates[d]) # noValue
         => redisGet(store', dailyStateKey(Dates[d])) = dailyRecord(Dates[d])]_vars

\* C40: an invocation of fetchDailyPuzzle that returned a failure has
\* completed no redis.set
C40_FailureWritesNothing ==
  \A via \in Callers :
    (fetch[via].result # null /\ ~fetch[via].result.success) =>
      fetch[via].writes = 0

(***************************************************************************)
(* The game client and its scores (ClientSpec).                             *)
(***************************************************************************)
\* the scores posted by the player that arrived under key with this pair
arrivedAs(key, entry) ==
  {h \in submitted : /\ h.key = key
                     /\ h.username = entry.username
                     /\ h.time = entry.time
                     /\ h.moves = entry.moves}

\* C35: an entry of the table leaderboard:<d>:<k> comes from a game on the
\* board of the shuffleSeed that the daily state of date d carries
C35_EntryOnBoardOfItsDate ==
  \A key \in tables :
    LET t == tableAt(key)
    IN  \A k \in DOMAIN t :
          \A h \in arrivedAs(key, t[k]) :
            /\ dailyRecord(key[2]) # noValue
            /\ h.seed = JSONparse(dailyRecord(key[2])).shuffleSeed

(***************************************************************************)
(* The board a game starts on (Spec).                                       *)
(***************************************************************************)
\* C36: the board returned by createShuffledPuzzle is not the solved board
C36_CreatedBoardUnsolved ==
  call.op = "create" => ~isSolved(call.ret)

(***************************************************************************)
(* The game client: clicks, timer, reset and posted scores (ClientSpec).    *)
(***************************************************************************)
\* C37: a step posts one score if it sets gameState.isSolved and none
\* otherwise; the board is then solved, the moves posted are the clicks
\* since the last create that changed the board, and the difficulty posted
\* is the size of the board
C37_PostsOncePerSolve ==
  [][LET sent == Len(game'.posts) - Len(game.posts)
     IN  /\ sent = IF ~game.isSolved /\ game'.isSolved THEN 1 ELSE 0
         /\ nmoves' = nmoves + 1 =>
               game'.valid = game.valid + IF puzzle' # puzzle THEN 1 ELSE 0
         /\ sent = 1 =>
               /\ isSolved(puzzle')
               /\ game'.posts[Len(game'.posts)].body.moves = game'.valid
               /\ game'.posts[Len(game'.posts)].body.difficulty = puzzle'.size
    ]_vars

\* a game solved after a click that was not a valid move: one score posted,
\* with fewer moves than clicks
C37_Witness ==
  /\ game.isSolved
  /\ Len(game.posts) = 1
  /\ call.since = 0
  /\ game.resets = 0
  /\ nmoves > game.valid
  /\ game.posts[1].body.moves = game.valid

\* C38: at most one interval is set, and one is set exactly when a valid
\* move has been made since the last create and the game is not solved
C38_TimerRunsWhilePlaying ==
  /\ Cardinality(game.active) <= 1
  /\ game.active # {} <=> (game.valid >= 1 /\ ~game.isSolved)
  /\ game.active # {} <=> ~Falsy(game.timerInterval)

\* the second interval of a run: a move, a reset, and a move again
C38_Witness ==
  /\ game.resets = 1
  /\ game.intervals = 2
  /\ game.active = {2}
  /\ game.valid >= 1

\* C39: while gameState.isSolved is set, a click changes nothing of the
\* game, and no step but a reset changes the board, the move counter, the
\* timer or the scores posted; a reset gives the board of
\* createShuffledPuzzle(difficulty, shuffleSeed), moves 0 and isSolved false
C39_SolvedUntilReset ==
  [][/\ (game.isSolved /\ nmoves' = nmoves + 1) =>
          (puzzle' = puzzle /\ game' = game)
     /\ (game.isSolved /\ game'.resets = game.resets) =>
          /\ puzzle' = puzzle
          /\ game'.isSolved
          /\ game'.moves = game.moves
          /\ game'.elapsedTime = game.elapsedTime
          /\ game'.timerInterval = game.timerInterval
          /\ game'.active = game.active
          /\ game'.posts = game.posts
     /\ (game.dailyState # null /\ game'.resets = game.resets + 1) =>
          /\ puzzle' = createShuffledPuzzle(game.difficulty,
                                            game.dailyState.shuffleSeed)
          /\ game'.moves = 0
          /\ ~game'.isSolved
    ]_vars

\* a tile was clicked on the solved game, and reset was pressed after it
C39_Witness ==
  /\ call.since >= 1
  /\ game.resets = 1
  /\ Len(game.posts) = 1
  /\ puzzle # null /\ ~isSolved(puzzle)
  /\ game.moves = 0 /\ ~game.isSolved

====
